---- MODULE Spec2Model ----
(***************************************************************************)
(* The team "recent form" lookback of sports-model.                        *)
(*                                                                         *)
(* Two implementations of the backward day walk live in the repository:    *)
(*   "service": app/services/last5_form.py                                 *)
(*              get_form_summary -> _get_last_n_games_for_team_generic     *)
(*   "router":  app/routers/form_routes.py                                 *)
(*              last5_team -> _get_last_n_games_for_team                   *)
(* A scan is one coroutine; its only suspension points are the per-day     *)
(* scoreboard fetches, so one step of the model is one iteration of the    *)
(* day loop (fetch the day, process its events), and a last step is the    *)
(* code after the loop (sort, truncate, build the summary, return).        *)
(*                                                                         *)
(* Calendar days are integers (a larger number is a later day). An event   *)
(* date is day * 2 + slot, slot 0 an afternoon start and slot 1 an evening *)
(* start; ESPN's ISO-8601 date strings of one format compare the same way. *)
(***************************************************************************)
EXTENDS Integers, Sequences, FiniteSets, TLC

\* max_days_back / max_back_days of a scan (60 and 90 by default), scaled down.
MaxBack == 3
\* The largest n a scan is asked for.
MaxN == 2
\* The consecutive-zero-day cutoff the specification document recommends (15), scaled down.
ZeroCutoff == 2

VARIABLES
    impl,        \* which implementation runs the scan
    today,       \* the caller's current date
    n,           \* the requested number of games
    upstream,    \* what the scoreboard provider holds: day -> events of that day
    pc,          \* "loop": at the top of a loop iteration; "done"; "raised"
    exc,         \* the exception a raised scan propagates
    delta,       \* the loop variable of the day loop
    games,       \* the accumulator (games / collected)
    fetched,     \* the days for which a day fetch was issued, in order
    failedDays,  \* the days whose fetch failed and was skipped
    summary,     \* the summary the entry point returns
    sport,       \* the sport key of the query
    team,        \* the team id the running scan looks for
    entry,       \* "scan": the scan function itself; "single", "matchup": an entry point
    teams,       \* the team ids of the query, in the order they are scanned
    members,     \* the summaries a matchup has built so far
    fn,          \* the function a call applies (the functions without a scan)
    arg,         \* the arguments of that call
    ret,         \* what the call returned
    cache,       \* _EDGE_CACHE: key -> entry
    clock,       \* datetime.utcnow(), in units of time
    lastSet,     \* key -> when and what _set_cached_edges last stored
    reqs,        \* the requests of edges_simple: where each one is, and its response
    service,     \* what get_nfl_player_prop_lines yields
    calls,       \* how many calls of get_nfl_player_prop_lines each key has had
    tasks,       \* the per-event tasks of an odds collection
    out,         \* the events whose odds the collection has stored
    sem,         \* the value of the collection's semaphore
    oddsCall     \* the collection: which collector, its configuration, where it is

vars == <<impl, today, n, upstream, pc, exc, delta, games, fetched, failedDays, summary,
          sport, team, entry, teams, members, fn, arg, ret,
          cache, clock, lastSet, reqs, service, calls, tasks, out, sem, oddsCall>>

\* The props cache with its requests, and an odds collection.
cacheVars == <<cache, clock, lastSet, reqs, service, calls>>
oddsVars == <<tasks, out, sem, oddsCall>>

\* What an entry point holds besides one scan's state, and a function call.
entryVars == <<sport, team, entry, teams, members>>
callVars == <<fn, arg, ret>>

Impls == {"service", "router"}

\* The team id the scan looks for (team_id).
TeamId == team

----------------------------------------------------------------------------
(* The upstream scoreboard                                                 *)

Us == [id |-> "150", name |-> "Duke"]
Opp == [id |-> "153", name |-> "UNC"]
\* A third team whose display name is the text of the queried team id.
Decoy == [id |-> "77", name |-> "150"]

\* Events of a day, before the day is stamped on them. ESPN sets
\* status.type.completed exactly on events whose status.type.state is "post".
FinalEarly == [slot |-> 0, state |-> "post", completed |-> TRUE, competitors |-> <<Us, Opp>>]
FinalLate == [slot |-> 1, state |-> "post", completed |-> TRUE, competitors |-> <<Opp, Us>>]
InProgress == [slot |-> 1, state |-> "in", completed |-> FALSE, competitors |-> <<Us, Opp>>]
OtherFinal == [slot |-> 0, state |-> "post", completed |-> TRUE, competitors |-> <<Opp, Decoy>>]

\* The scoreboards a day can have: an off-day, one game, two games of the team
\* in either upstream order, and days with games that do not qualify.
DayBoards ==
    { <<>>,
      <<FinalEarly>>,
      <<FinalEarly, FinalLate>>,
      <<FinalLate, FinalEarly>>,
      <<InProgress>>,
      <<OtherFinal, FinalLate>> }

Stamp(e, day, i) ==
    [id |-> <<day, i>>, date |-> day * 2 + e.slot, state |-> e.state,
     completed |-> e.completed, competitors |-> e.competitors]

\* The events array of the scoreboard of `day`.
Board(day) ==
    IF day \in DOMAIN upstream
    THEN [i \in 1..Len(upstream[day]) |-> Stamp(upstream[day][i], day, i)]
    ELSE <<>>

\* How one HTTP request can end.
Outcomes == {"ok", "status", "timeout", "malformed"}

----------------------------------------------------------------------------
(* ScoreboardGateway: one day fetch                                        *)

ExcOf(outcome) ==
    CASE outcome = "status" -> "HTTPStatusError"
      [] outcome = "timeout" -> "TimeoutException"
      [] outcome = "malformed" -> "JSONDecodeError"
      [] OTHER -> "none"

\* last5_form._get_json: at most two attempts, the first success is returned,
\* and the last exception is raised when both fail. a1 and a2 are how the first
\* and the second request end (the second is issued only after a failed first).
GetJson(a1, a2) ==
    IF a1 = "ok" THEN [ok |-> TRUE, exc |-> "none"]
    ELSE IF a2 = "ok" THEN [ok |-> TRUE, exc |-> "none"]
    ELSE [ok |-> FALSE, exc |-> ExcOf(a2)]

\* form_routes._fetch_scoreboard_day: one request, no retry, every failure raises.
FetchScoreboardDay(a) ==
    IF a = "ok" THEN [ok |-> TRUE, exc |-> "none"] ELSE [ok |-> FALSE, exc |-> ExcOf(a)]

\* The except clause of the router's loop: only httpx.HTTPStatusError is caught.
RouterCatches(e) == e = "HTTPStatusError"

----------------------------------------------------------------------------
(* EventNormalizer                                                         *)

CompetitorIdx(ev) == 1..Len(ev.competitors)

SetMax(S) == CHOOSE x \in S : \A y \in S : y <= x
SetMin(S) == CHOOSE x \in S : \A y \in S : x <= y

\* ExtractTeamView without its check of the status: a view of any event of the team.
ExtractTeamViewAnyState(teamId, ev) ==
    IF Len(ev.competitors) < 2 THEN <<>>
    ELSE LET mine == {i \in CompetitorIdx(ev) : ev.competitors[i].id = teamId}
             others == {i \in CompetitorIdx(ev) : ev.competitors[i].id # teamId}
         IN  IF mine = {} \/ others = {} THEN <<>>
             ELSE LET tc == ev.competitors[SetMax(mine)]
                      oc == ev.competitors[SetMin(others)]
                  IN  << [eventId |-> ev.id, teamId |-> tc.id, teamName |-> tc.name,
                          opponentId |-> oc.id, opponentName |-> oc.name,
                          state |-> ev.state, date |-> ev.date] >>

\* last5_form._extract_team_view_from_event: <<>> stands for None, <<view>> for a view.
\* team_comp is the last competitor whose team id matches, opp_comp the first
\* competitor whose team id does not.
ExtractTeamView(teamId, ev) ==
    IF ev.state # "post" THEN <<>>
    ELSE IF Len(ev.competitors) < 2 THEN <<>>
    ELSE LET mine == {i \in CompetitorIdx(ev) : ev.competitors[i].id = teamId}
             others == {i \in CompetitorIdx(ev) : ev.competitors[i].id # teamId}
         IN  IF mine = {} \/ others = {} THEN <<>>
             ELSE LET tc == ev.competitors[SetMax(mine)]
                      oc == ev.competitors[SetMin(others)]
                  IN  << [eventId |-> ev.id, teamId |-> tc.id, teamName |-> tc.name,
                          opponentId |-> oc.id, opponentName |-> oc.name,
                          state |-> ev.state, date |-> ev.date] >>

\* form_routes._event_includes_team
EventIncludesTeam(ev, teamId) ==
    \E i \in CompetitorIdx(ev) : ev.competitors[i].id = teamId

\* form_routes._event_completed
EventCompleted(ev) == ev.completed

----------------------------------------------------------------------------
(* FormScanner                                                             *)

\* The inner loop of _get_last_n_games_for_team_generic over one day's events:
\* the length check comes before each event is looked at.
RECURSIVE CollectService(_, _, _)
CollectService(acc, events, k) ==
    IF events = <<>> THEN acc
    ELSE IF Len(acc) >= k THEN acc
    ELSE CollectService(acc \o ExtractTeamView(TeamId, Head(events)), Tail(events), k)

\* CollectRouter without the break that follows the append.
RECURSIVE CollectRouterNoBreak(_, _, _)
CollectRouterNoBreak(acc, events, k) ==
    IF events = <<>> THEN acc
    ELSE IF ~EventIncludesTeam(Head(events), TeamId) THEN CollectRouterNoBreak(acc, Tail(events), k)
    ELSE IF ~EventCompleted(Head(events)) THEN CollectRouterNoBreak(acc, Tail(events), k)
    ELSE CollectRouterNoBreak(Append(acc, Head(events)), Tail(events), k)

\* The inner loop of _get_last_n_games_for_team over one day's events: the
\* length check comes after each append.
RECURSIVE CollectRouter(_, _, _)
CollectRouter(acc, events, k) ==
    IF events = <<>> THEN acc
    ELSE IF ~EventIncludesTeam(Head(events), TeamId) THEN CollectRouter(acc, Tail(events), k)
    ELSE IF ~EventCompleted(Head(events)) THEN CollectRouter(acc, Tail(events), k)
    ELSE LET acc2 == Append(acc, Head(events))
         IN  IF Len(acc2) >= k THEN acc2 ELSE CollectRouter(acc2, Tail(events), k)

\* list.sort(key=date, reverse=True) is stable: records of equal date keep their order.
RECURSIVE InsertByDate(_, _)
InsertByDate(g, sorted) ==
    IF sorted = <<>> THEN <<g>>
    ELSE IF Head(sorted).date >= g.date THEN <<Head(sorted)>> \o InsertByDate(g, Tail(sorted))
    ELSE <<g>> \o sorted

RECURSIVE SortNewestFirst(_)
SortNewestFirst(s) ==
    IF s = <<>> THEN <<>>
    ELSE InsertByDate(s[Len(s)], SortNewestFirst(SubSeq(s, 1, Len(s) - 1)))

\* if len(games) > n: games = games[:n]
Truncate(s, k) == IF Len(s) > k THEN SubSeq(s, 1, k) ELSE s

\* The day walk started one day back, at yesterday.
DayOfFromYesterday(d) == today - (d + 1)

\* day = today - timedelta(days=delta)
DayOf(d) == today - d

\* A fetched day yielded zero events: an empty scoreboard, or a failed fetch.
ZeroEventDay(day) == day \in failedDays \/ Board(day) = <<>>

\* The number of zero-event days at the end of the days fetched so far.
RECURSIVE TrailingZeroDays(_)
TrailingZeroDays(days) ==
    IF days = <<>> THEN 0
    ELSE IF ZeroEventDay(days[Len(days)])
         THEN 1 + TrailingZeroDays(SubSeq(days, 1, Len(days) - 1))
         ELSE 0

ZeroRun == TrailingZeroDays(fetched)

\* The loop without its check of the accumulator's length.
LoopIgnoresCount == delta < MaxBack

\* The loop with the break written with > for >=.
LoopBreaksAbove == delta < MaxBack /\ Len(games) <= n

\* The loop over range(max_days_back - 1).
LoopOneDayShort == delta < MaxBack - 1 /\ Len(games) < n

\* The loop with a consecutive-zero-day cutoff added.
LoopWithZeroCutoff == delta < MaxBack /\ Len(games) < n /\ ZeroRun < ZeroCutoff

\* for delta in range(max_days_back): if len(games) >= n: break
LoopContinues == delta < MaxBack /\ Len(games) < n

NoSummary == [note |-> "none"]
NoArg == [none |-> TRUE]
NoRet == [none |-> TRUE]

Todays == {MaxBack, MaxBack + 1}

\* Nothing cached, no request of edges_simple, no odds collection.
SideIdle ==
    /\ cache = <<>>
    /\ clock = 0
    /\ lastSet = <<>>
    /\ reqs = <<>>
    /\ service = [none |-> TRUE]
    /\ calls = <<>>
    /\ tasks = <<>>
    /\ out = {}
    /\ sem = 0
    /\ oddsCall = [none |-> TRUE]

Init ==
    /\ impl \in Impls
    /\ today \in Todays
    /\ n \in 0..MaxN
    /\ upstream \in [(today - MaxBack + 1)..today -> DayBoards]
    /\ pc = "loop"
    /\ exc = "none"
    /\ delta = 0
    /\ games = <<>>
    /\ fetched = <<>>
    /\ failedDays = {}
    /\ summary = NoSummary
    /\ sport = "cbb"
    /\ team = "150"
    /\ entry = "scan"
    /\ teams = <<"150">>
    /\ members = <<>>
    /\ fn = "none"
    /\ arg = NoArg
    /\ ret = NoRet
    /\ SideIdle

\* One iteration of the service's day loop whose fetch succeeds.
ServiceDayOk(a1, a2) ==
    /\ impl = "service" /\ pc = "loop" /\ LoopContinues
    /\ GetJson(a1, a2).ok
    /\ fetched' = Append(fetched, DayOf(delta))
    /\ games' = CollectService(games, Board(DayOf(delta)), n)
    /\ delta' = delta + 1
    /\ UNCHANGED <<impl, today, n, upstream, pc, exc, failedDays, summary>>
    /\ UNCHANGED <<entryVars, callVars, cacheVars, oddsVars>>

\* One iteration of the service's day loop whose fetch fails: _get_json raises,
\* and neither _fetch_scoreboard_events nor the loop nor get_form_summary catches.
ServiceDayRaise(a1, a2) ==
    /\ impl = "service" /\ pc = "loop" /\ LoopContinues
    /\ ~GetJson(a1, a2).ok
    /\ fetched' = Append(fetched, DayOf(delta))
    /\ pc' = "raised"
    /\ exc' = GetJson(a1, a2).exc
    /\ UNCHANGED <<impl, today, n, upstream, delta, games, failedDays, summary>>
    /\ UNCHANGED <<entryVars, callVars, cacheVars, oddsVars>>

\* After the service's loop: sort, truncate, and get_form_summary's result.
ServiceReturn ==
    /\ impl = "service" /\ pc = "loop" /\ ~LoopContinues
    /\ games' = Truncate(SortNewestFirst(games), n)
    /\ summary' = [teamId |-> TeamId, nRequested |-> n, nFound |-> Len(games'), games |-> games']
    /\ pc' = "done"
    /\ UNCHANGED <<impl, today, n, upstream, exc, delta, fetched, failedDays>>
    /\ UNCHANGED <<entryVars, callVars, cacheVars, oddsVars>>

\* One iteration of the router's day loop whose fetch succeeds.
RouterDayOk(a) ==
    /\ impl = "router" /\ pc = "loop" /\ LoopContinues
    /\ FetchScoreboardDay(a).ok
    /\ fetched' = Append(fetched, DayOf(delta))
    /\ games' = CollectRouter(games, Board(DayOf(delta)), n)
    /\ delta' = delta + 1
    /\ UNCHANGED <<impl, today, n, upstream, pc, exc, failedDays, summary>>
    /\ UNCHANGED <<entryVars, callVars, cacheVars, oddsVars>>

\* One iteration of the router's day loop whose fetch raises HTTPStatusError:
\* logged, and the loop continues with the next day.
RouterDaySkip(a) ==
    /\ impl = "router" /\ pc = "loop" /\ LoopContinues
    /\ ~FetchScoreboardDay(a).ok
    /\ RouterCatches(FetchScoreboardDay(a).exc)
    /\ fetched' = Append(fetched, DayOf(delta))
    /\ failedDays' = failedDays \cup {DayOf(delta)}
    /\ delta' = delta + 1
    /\ UNCHANGED <<impl, today, n, upstream, pc, exc, games, summary>>
    /\ UNCHANGED <<entryVars, callVars, cacheVars, oddsVars>>

\* One iteration of the router's day loop whose fetch raises anything else
\* (a timeout, a body that is not JSON): the exception leaves the scan.
RouterDayRaise(a) ==
    /\ impl = "router" /\ pc = "loop" /\ LoopContinues
    /\ ~FetchScoreboardDay(a).ok
    /\ ~RouterCatches(FetchScoreboardDay(a).exc)
    /\ fetched' = Append(fetched, DayOf(delta))
    /\ pc' = "raised"
    /\ exc' = FetchScoreboardDay(a).exc
    /\ UNCHANGED <<impl, today, n, upstream, delta, games, failedDays, summary>>
    /\ UNCHANGED <<entryVars, callVars, cacheVars, oddsVars>>

\* After the router's loop: the collected events are returned as they are and
\* _summarize_team_form counts them.
RouterReturn ==
    /\ impl = "router" /\ pc = "loop" /\ ~LoopContinues
    /\ summary' = [teamId |-> TeamId, nRequested |-> n, nFound |-> Len(games)]
    /\ pc' = "done"
    /\ UNCHANGED <<impl, today, n, upstream, exc, delta, games, fetched, failedDays>>
    /\ UNCHANGED <<entryVars, callVars, cacheVars, oddsVars>>

Next ==
    \/ \E a1, a2 \in Outcomes : ServiceDayOk(a1, a2)
    \/ \E a1, a2 \in Outcomes : ServiceDayRaise(a1, a2)
    \/ ServiceReturn
    \/ \E a \in Outcomes : RouterDayOk(a)
    \/ \E a \in Outcomes : RouterDaySkip(a)
    \/ \E a \in Outcomes : RouterDayRaise(a)
    \/ RouterReturn

Spec == Init /\ [][Next]_vars

\* The event loop resumes the coroutine whenever a request ends, and every
\* request ends (AsyncClient(timeout=10.0)).
FairSpec == Spec /\ WF_vars(Next)

----------------------------------------------------------------------------
(* The functions without a scan: one call, applied in one step            *)

\* The keys of SPORT_CONFIG and of SPORT_SCOREBOARD_URLS (the same four).
SupportedSports == {"cbb", "nfl", "nhl", "cfb"}
\* Sport keys a caller can pass: the supported ones and one that is not.
SportKeys == SupportedSports \cup {"xyz"}

\* last5_form._fetch_scoreboard_events(sport, date_str): a1, a2 are how the two
\* attempts of _get_json end and events is the scoreboard of the day.
ScoreboardEvents(s, a1, a2, events) ==
    IF s \notin SupportedSports THEN [raised |-> FALSE, exc |-> "none", events |-> <<>>]
    ELSE IF GetJson(a1, a2).ok THEN [raised |-> FALSE, exc |-> "none", events |-> events]
    ELSE [raised |-> TRUE, exc |-> GetJson(a1, a2).exc, events |-> <<>>]

\* form_routes._fetch_scoreboard_day(sport, day): a is how its one request ends.
ScoreboardDay(s, a, events) ==
    IF s \notin SupportedSports THEN [raised |-> TRUE, exc |-> "ValueError", events |-> <<>>]
    ELSE IF FetchScoreboardDay(a).ok THEN [raised |-> FALSE, exc |-> "none", events |-> events]
    ELSE [raised |-> TRUE, exc |-> FetchScoreboardDay(a).exc, events |-> <<>>]

\* JSON values as the payload carries them: a missing key or null, a string
\* (its characters), a number, an object.
RawNone == [k |-> "none", chars |-> <<>>, v |-> 0]
RawStr(chars) == [k |-> "str", chars |-> chars, v |-> 0]
RawNum(v) == [k |-> "num", chars |-> <<>>, v |-> v]
RawObj == [k |-> "obj", chars |-> <<>>, v |-> 0]

\* An Optional[int]: None, or an integer.
Null == [null |-> TRUE, v |-> 0]
Some(v) == [null |-> FALSE, v |-> v]

Digits == {"0", "1", "2", "3", "4", "5", "6", "7", "8", "9"}
DigitValue(c) ==
    CASE c = "0" -> 0 [] c = "1" -> 1 [] c = "2" -> 2 [] c = "3" -> 3 [] c = "4" -> 4
      [] c = "5" -> 5 [] c = "6" -> 6 [] c = "7" -> 7 [] c = "8" -> 8 [] c = "9" -> 9

\* The integer a string of decimal digits denotes.
RECURSIVE ParseDigits(_)
ParseDigits(chars) ==
    IF chars = <<>> THEN 0
    ELSE 10 * ParseDigits(SubSeq(chars, 1, Len(chars) - 1)) + DigitValue(chars[Len(chars)])

IsDigits(chars) == chars # <<>> /\ \A i \in 1..Len(chars) : chars[i] \in Digits

\* Python's int(x): the value of a number or of a string of digits, ValueError
\* for any other string, TypeError for None and for an object.
IntOf(raw) ==
    CASE raw.k = "num" -> [raised |-> FALSE, v |-> raw.v]
      [] raw.k = "str" /\ IsDigits(raw.chars) -> [raised |-> FALSE, v |-> ParseDigits(raw.chars)]
      [] OTHER -> [raised |-> TRUE, v |-> 0]

\* x is not None and x != ""
Present(raw) == raw.k # "none" /\ ~(raw.k = "str" /\ raw.chars = <<>>)

\* FullScoreOf with a score that is not a number counted as 0.
FullScoreZeroWhenBad(raw) ==
    IF ~Present(raw) THEN Null
    ELSE IF IntOf(raw).raised THEN Some(0)
    ELSE Some(IntOf(raw).v)

\* _get_scores, the full score: int(full) if full is not None and full != ""
\* else None, and None when int() raises.
FullScoreOf(raw) ==
    IF ~Present(raw) THEN Null
    ELSE IF IntOf(raw).raised THEN Null
    ELSE Some(IntOf(raw).v)

\* FirstHalfOf with 0 for a competitor without period entries.
FirstHalfZeroWhenMissing(lines) ==
    IF lines = <<>> THEN Some(0)
    ELSE IF ~Present(lines[1]) THEN Null
    ELSE IF IntOf(lines[1]).raised THEN Null
    ELSE Some(IntOf(lines[1]).v)

\* _get_scores, the first half: the value of the first linescores entry,
\* whatever the sport; None without entries, without a value, or when int() raises.
FirstHalfOf(lines) ==
    IF lines = <<>> THEN Null
    ELSE IF ~Present(lines[1]) THEN Null
    ELSE IF IntOf(lines[1]).raised THEN Null
    ELSE Some(IntOf(lines[1]).v)

\* _extract_team_view_from_event._get_scores(c) -> (full_int, first_half)
GetScores(c) == [full |-> FullScoreOf(c.score), firstHalf |-> FirstHalfOf(c.linescores)]

\* The scores and the period values a competitor entry can carry.
ScoreValues ==
    { RawNone, RawStr(<<>>), RawStr(<<"8", "0">>), RawStr(<<"7">>), RawStr(<<"a", "b">>),
      RawNum(75), RawObj }
PeriodValues ==
    { RawNum(7), RawNum(10), RawStr(<<"3">>), RawNone, RawStr(<<>>), RawStr(<<"x">>) }

\* The largest number of period entries of a competitor.
MaxPeriods == 2

RECURSIVE SeqsUpTo(_, _)
SeqsUpTo(S, len) ==
    IF len = 0 THEN {<<>>}
    ELSE SeqsUpTo(S, len - 1) \cup {Append(q, x) : q \in {r \in SeqsUpTo(S, len - 1) : Len(r) = len - 1}, x \in S}

ScoreArgs ==
    [sport : SupportedSports, score : ScoreValues, linescores : SeqsUpTo(PeriodValues, MaxPeriods)]

----------------------------------------------------------------------------
(* FormAggregator: form_routes._summarize_team_form                        *)

\* A float average: None, or total / count kept as the fraction num / den.
NullAvg == [null |-> TRUE, num |-> 0, den |-> 1]
Avg(total, count) == [null |-> FALSE, num |-> total, den |-> count]

\* _find_team_and_opp: the last competitor whose team id matches and the last
\* one whose team id does not, 0 standing for None.
FindTeamAndOpp(ev, teamId) ==
    LET mine == {i \in CompetitorIdx(ev) : ev.competitors[i].id = teamId}
        others == {i \in CompetitorIdx(ev) : ev.competitors[i].id # teamId}
    IN  [ours |-> IF mine = {} THEN 0 ELSE SetMax(mine),
         opp |-> IF others = {} THEN 0 ELSE SetMax(others)]

Located(ev, teamId) == FindTeamAndOpp(ev, teamId).ours # 0 /\ FindTeamAndOpp(ev, teamId).opp # 0

\* x or 0: None, "" and 0 are falsy.
Falsy(raw) ==
    \/ raw.k = "none"
    \/ raw.k = "str" /\ raw.chars = <<>>
    \/ raw.k = "num" /\ raw.v = 0

\* try: float(x or 0) except ValueError: 0.0 -- a TypeError is not caught.
ScoreFloat(raw) ==
    IF Falsy(raw) THEN [raised |-> FALSE, v |-> 0]
    ELSE IF raw.k = "obj" THEN [raised |-> TRUE, v |-> 0]
    ELSE IF IntOf(raw).raised THEN [raised |-> FALSE, v |-> 0]
    ELSE [raised |-> FALSE, v |-> IntOf(raw).v]

SideOf(ev, teamId, side) ==
    ev.competitors[IF side = "ours" THEN FindTeamAndOpp(ev, teamId).ours
                   ELSE FindTeamAndOpp(ev, teamId).opp]

\* SumScores adding the team's score on both sides.
RECURSIVE SumScoresOneSide(_, _, _)
SumScoresOneSide(evs, teamId, side) ==
    IF evs = <<>> THEN 0
    ELSE (IF ~Located(Head(evs), teamId) THEN 0
          ELSE ScoreFloat(SideOf(Head(evs), teamId, "ours").score).v)
         + SumScoresOneSide(Tail(evs), teamId, side)

\* total_full_scored / total_full_allowed: a game without both competitors is
\* skipped (continue), every other game adds float(score or 0).
RECURSIVE SumScores(_, _, _)
SumScores(evs, teamId, side) ==
    IF evs = <<>> THEN 0
    ELSE (IF ~Located(Head(evs), teamId) THEN 0
          ELSE ScoreFloat(SideOf(Head(evs), teamId, side).score).v)
         + SumScores(Tail(evs), teamId, side)

\* float() raises TypeError on a game that is not skipped.
SummaryRaises(evs, teamId) ==
    \E i \in 1..Len(evs) :
        /\ Located(evs[i], teamId)
        /\ \/ ScoreFloat(SideOf(evs[i], teamId, "ours").score).raised
           \/ ScoreFloat(SideOf(evs[i], teamId, "opp").score).raised

RECURSIVE SumFirstHalves(_, _, _)
SumFirstHalves(evs, teamId, side) ==
    IF evs = <<>> THEN 0
    ELSE (IF ~Located(Head(evs), teamId) THEN 0
          ELSE FirstHalfOf(SideOf(Head(evs), teamId, side).linescores).v)
         + SumFirstHalves(Tail(evs), teamId, side)

\* AvgFirstHalf computed like the full-game averages: a total over n_found,
\* a game without period data adding 0.
AvgFirstHalfZeroFilled(evs, teamId, side) ==
    IF evs = <<>> THEN NullAvg ELSE Avg(SumFirstHalves(evs, teamId, side), Len(evs))

\* "avg1H_scored": None, "avg1H_allowed": None -- left as None in both returns.
AvgFirstHalf(evs, teamId, side) == NullAvg

\* _summarize_team_form(sport, team_id, games, n_requested)
SummarizeTeamForm(teamId, evs, nRequested) ==
    IF evs = <<>>
    THEN [raised |-> FALSE, nRequested |-> nRequested, nFound |-> 0,
          avg1H_scored |-> NullAvg, avg1H_allowed |-> NullAvg,
          avgFull_scored |-> NullAvg, avgFull_allowed |-> NullAvg]
    ELSE IF SummaryRaises(evs, teamId)
    THEN [raised |-> TRUE, nRequested |-> nRequested, nFound |-> Len(evs),
          avg1H_scored |-> NullAvg, avg1H_allowed |-> NullAvg,
          avgFull_scored |-> NullAvg, avgFull_allowed |-> NullAvg]
    ELSE [raised |-> FALSE, nRequested |-> nRequested, nFound |-> Len(evs),
          avg1H_scored |-> AvgFirstHalf(evs, teamId, "ours"),
          avg1H_allowed |-> AvgFirstHalf(evs, teamId, "opp"),
          avgFull_scored |-> Avg(SumScores(evs, teamId, "ours"), Len(evs)),
          avgFull_allowed |-> Avg(SumScores(evs, teamId, "opp"), Len(evs))]

Comp(id, score, lines) == [id |-> id, score |-> score, linescores |-> lines]

\* The completed games of team 150 the aggregator can be handed.
GameFull == [competitors |->
    << Comp("150", RawStr(<<"8", "0">>), <<RawNum(7), RawNum(10)>>),
       Comp("153", RawNum(75), <<RawNum(10), RawNum(7)>>) >>]
GameAway == [competitors |->
    << Comp("153", RawStr(<<"8", "0">>), <<RawNum(7)>>),
       Comp("150", RawStr(<<"7">>), <<RawNum(10)>>) >>]
GameNoPeriods == [competitors |->
    << Comp("150", RawNum(75), <<>>), Comp("153", RawStr(<<"7">>), <<>>) >>]
GameNoScore == [competitors |->
    << Comp("150", RawNone, <<>>), Comp("153", RawStr(<<>>), <<>>) >>]
GameBadScore == [competitors |->
    << Comp("150", RawStr(<<"a", "b">>), <<>>), Comp("153", RawStr(<<"7">>), <<>>) >>]
GameAlone == [competitors |->
    << Comp("150", RawStr(<<"8", "0">>), <<RawNum(7)>>) >>]
GameObjScore == [competitors |->
    << Comp("150", RawObj, <<>>), Comp("153", RawStr(<<"7">>), <<>>) >>]

AggGames == {GameFull, GameAway, GameNoPeriods, GameNoScore, GameBadScore, GameAlone, GameObjScore}

\* The largest number of games the aggregator is handed.
MaxGames == 3

SummarizeArgs == [teamId : {"150"}, games : SeqsUpTo(AggGames, MaxGames), n : {MaxGames}]

----------------------------------------------------------------------------
(* One day's events when the payload is not well formed                    *)

\* What can be wrong with an event of the payload: nothing; "competitions"
\* missing or empty; the opponent's competitor entry without a "team" object;
\* the first entry of "competitors" null instead of an object.
EventKinds == {"ok", "no_competitions", "no_opp_team", "bad_competitor"}

\* The view of an event whose opponent entry has no team object:
\* o_team = {} and the opponent fields are None.
WithoutOpponent(view) ==
    [eventId |-> view.eventId, teamId |-> view.teamId, teamName |-> view.teamName,
     opponentId |-> "None", opponentName |-> "None",
     state |-> view.state, date |-> view.date]

\* _extract_team_view_from_event on a payload event e = [kind, core]: the
\* whole body is inside try / except Exception -> None.
ExtractRaw(teamId, e) ==
    CASE e.kind = "no_competitions" -> <<>>
      [] e.kind = "bad_competitor" -> <<>>
      [] e.kind = "no_opp_team" ->
            IF ExtractTeamView(teamId, e.core) = <<>> THEN <<>>
            ELSE << WithoutOpponent(ExtractTeamView(teamId, e.core)[1]) >>
      [] OTHER -> ExtractTeamView(teamId, e.core)

\* _event_includes_team on a payload event: c.get on a competitor entry that
\* is not an object raises AttributeError, and nothing catches it.
IncludesRaw(e, teamId) ==
    CASE e.kind = "no_competitions" -> [raised |-> FALSE, v |-> FALSE]
      [] e.kind = "bad_competitor" -> [raised |-> TRUE, v |-> FALSE]
      [] OTHER -> [raised |-> FALSE, v |-> EventIncludesTeam(e.core, teamId)]

\* _event_completed on a payload event.
CompletedRaw(e) == IF e.kind = "no_competitions" THEN FALSE ELSE EventCompleted(e.core)

\* The inner loop of _get_last_n_games_for_team_generic over payload events.
RECURSIVE CollectDayService(_, _, _, _)
CollectDayService(acc, events, teamId, k) ==
    IF events = <<>> THEN [raised |-> FALSE, games |-> acc]
    ELSE IF Len(acc) >= k THEN [raised |-> FALSE, games |-> acc]
    ELSE CollectDayService(acc \o ExtractRaw(teamId, Head(events)), Tail(events), teamId, k)

\* The inner loop of _get_last_n_games_for_team over payload events.
RECURSIVE CollectDayRouter(_, _, _, _)
CollectDayRouter(acc, events, teamId, k) ==
    IF events = <<>> THEN [raised |-> FALSE, games |-> acc]
    ELSE IF IncludesRaw(Head(events), teamId).raised THEN [raised |-> TRUE, games |-> <<>>]
    ELSE IF ~IncludesRaw(Head(events), teamId).v
         THEN CollectDayRouter(acc, Tail(events), teamId, k)
    ELSE IF ~CompletedRaw(Head(events))
         THEN CollectDayRouter(acc, Tail(events), teamId, k)
    ELSE LET acc2 == Append(acc, Head(events).core)
         IN  IF Len(acc2) >= k THEN [raised |-> FALSE, games |-> acc2]
             ELSE CollectDayRouter(acc2, Tail(events), teamId, k)

\* The largest number of events of a payload day.
MaxDayEvents == 2

\* The events of a payload day before they are stamped.
PayloadEvents == [kind : EventKinds, base : {FinalEarly, InProgress}]

StampPayload(raw) ==
    [i \in 1..Len(raw) |-> [kind |-> raw[i].kind, core |-> Stamp(raw[i].base, MaxBack, i)]]

CollectArgs ==
    [impl : Impls, teamId : {"150"}, raw : SeqsUpTo(PayloadEvents, MaxDayEvents), n : 1..MaxN]

----------------------------------------------------------------------------
(* The HTTP helper with retries: last5_form._get_json, espn_common._get_json *)

\* for attempt in range(2) / max_tries: int = 2
MaxTries == 2

\* Attempts with one more iteration of the loop.
RECURSIVE AttemptsOneMore(_, _, _)
AttemptsOneMore(outs, attempt, last) ==
    IF attempt > MaxTries + 1 THEN [raised |-> TRUE, exc |-> last, requests |-> attempt - 1]
    ELSE IF outs[attempt] = "ok" THEN [raised |-> FALSE, exc |-> "none", requests |-> attempt]
    ELSE AttemptsOneMore(outs, attempt + 1, ExcOf(outs[attempt]))

\* The retry loop from its attempt-th iteration on: outs[i] is how the i-th
\* request ends if it is issued, last the exception kept so far. A request
\* that succeeds returns at once; after the last iteration `raise last`.
RECURSIVE Attempts(_, _, _)
Attempts(outs, attempt, last) ==
    IF attempt > MaxTries THEN [raised |-> TRUE, exc |-> last, requests |-> attempt - 1]
    ELSE IF outs[attempt] = "ok" THEN [raised |-> FALSE, exc |-> "none", requests |-> attempt]
    ELSE Attempts(outs, attempt + 1, ExcOf(outs[attempt]))

\* The two helpers: both loop over MaxTries attempts and raise the last exception.
Helpers == {"last5_form", "espn_common"}

\* How the requests a call could issue would end, one more than it may issue.
RetryArgs == [helper : Helpers, outs : [1..(MaxTries + 1) -> Outcomes]]

----------------------------------------------------------------------------
(* Ranked edges: cbb_edges, nfl_edges, nfl_edges_simple                    *)

Abs(x) == IF x < 0 THEN 0 - x ELSE x

\* key = "spreadHome" if sort == "spread" else "total"
EdgeKey(sort) == IF sort = "spread" THEN "spreadHome" ELSE "total"
EdgeOf(row, sort) == IF EdgeKey(sort) = "spreadHome" THEN row.edge.spreadHome ELSE row.edge.total

\* AbsEdge with a null edge ranked as an edge of 1.
AbsEdgeNullAsOne(row, sort) ==
    IF EdgeOf(row, sort).null THEN 1 ELSE Abs(EdgeOf(row, sort).v)

\* _abs_edge: abs(val) if isinstance(val, (int, float)) else -1.0
AbsEdge(row, sort) ==
    IF EdgeOf(row, sort).null THEN -1 ELSE Abs(EdgeOf(row, sort).v)

\* sorted(rows, key=_abs_edge, reverse=True): stable, rows of equal key keep
\* their order.
RECURSIVE InsertByEdge(_, _, _)
InsertByEdge(r, sorted, sort) ==
    IF sorted = <<>> THEN <<r>>
    ELSE IF AbsEdge(Head(sorted), sort) >= AbsEdge(r, sort)
         THEN <<Head(sorted)>> \o InsertByEdge(r, Tail(sorted), sort)
    ELSE <<r>> \o sorted

RECURSIVE SortByEdge(_, _)
SortByEdge(rows, sort) ==
    IF rows = <<>> THEN <<>>
    ELSE InsertByEdge(rows[Len(rows)], SortByEdge(SubSeq(rows, 1, Len(rows) - 1), sort), sort)

\* Python's min and max of two numbers.
PyMin(a, b) == IF a < b THEN a ELSE b
PyMax(a, b) == IF a > b THEN a ELSE b

\* max(1, min(limit, 100))
LimitCap == 100
RowCap(limit) == PyMax(1, PyMin(limit, LimitCap))

\* ranked[:max(1, min(limit, 100))]
RankEdges(rows, sort, limit) ==
    SubSeq(SortByEdge(rows, sort), 1, PyMin(RowCap(limit), Len(rows)))

\* Slate rows by their edges (hundredths of a point; None without a market).
EdgeRows ==
    { [edge |-> [spreadHome |-> Some(-3), total |-> Null]],
      [edge |-> [spreadHome |-> Some(0), total |-> Some(2)]],
      [edge |-> [spreadHome |-> Null, total |-> Some(-1)]],
      [edge |-> [spreadHome |-> Some(2), total |-> Some(0)]],
      [edge |-> [spreadHome |-> Null, total |-> Null]] }

\* The largest number of rows of a slate.
MaxRows == 3

EdgeEndpoints == {"cbb_edges", "nfl_edges", "nfl_edges_simple"}
EdgeLimits == {-1, 0, 1, 2, LimitCap + 1}

EdgeArgs ==
    [endpoint : EdgeEndpoints, sort : {"spread", "total"}, limit : EdgeLimits,
     rows : SeqsUpTo(EdgeRows, MaxRows)]

FetchArgs ==
    [impl : {"service"}, sport : SportKeys, a1 : Outcomes, a2 : Outcomes, events : DayBoards]
    \cup [impl : {"router"}, sport : SportKeys, a1 : Outcomes, a2 : {"ok"}, events : DayBoards]

\* No scan runs while a function is called on its own.
ScanIdle ==
    /\ impl = "service"
    /\ today = MaxBack
    /\ n = 0
    /\ upstream = [d \in 1..MaxBack |-> <<>>]
    /\ pc = "idle"
    /\ exc = "none"
    /\ delta = 0
    /\ games = <<>>
    /\ fetched = <<>>
    /\ failedDays = {}
    /\ summary = NoSummary
    /\ sport = "cbb"
    /\ team = "150"
    /\ entry = "call"
    /\ teams = <<>>
    /\ members = <<>>

scanVars == <<impl, today, n, upstream, pc, exc, delta, games, fetched, failedDays, summary>>

FnInit ==
    /\ ScanIdle
    /\ SideIdle
    /\ ret = NoRet
    /\ \/ fn = "fetch_day" /\ arg \in FetchArgs
       \/ fn = "get_scores" /\ arg \in ScoreArgs
       \/ fn = "summarize" /\ arg \in SummarizeArgs
       \/ fn = "collect_day" /\ arg \in CollectArgs
       \/ fn = "get_json" /\ arg \in RetryArgs
       \/ fn = "edges" /\ arg \in EdgeArgs

\* One call of the day fetch.
CallFetchDay ==
    /\ fn = "fetch_day" /\ ret = NoRet
    /\ ret' = IF arg.impl = "service"
              THEN ScoreboardEvents(arg.sport, arg.a1, arg.a2, arg.events)
              ELSE ScoreboardDay(arg.sport, arg.a1, arg.events)
    /\ UNCHANGED <<scanVars, entryVars, fn, arg, cacheVars, oddsVars>>

\* One competitor's scores as _extract_team_view_from_event puts them in a view
\* of the sport (final and firstHalf, or oppFinal and oppFirstHalf).
CallGetScores ==
    /\ fn = "get_scores" /\ ret = NoRet
    /\ ret' = [sport |-> arg.sport,
               final |-> GetScores(arg).full,
               firstHalf |-> GetScores(arg).firstHalf]
    /\ UNCHANGED <<scanVars, entryVars, fn, arg, cacheVars, oddsVars>>

\* One call of _summarize_team_form.
CallSummarize ==
    /\ fn = "summarize" /\ ret = NoRet
    /\ ret' = SummarizeTeamForm(arg.teamId, arg.games, arg.n)
    /\ UNCHANGED <<scanVars, entryVars, fn, arg, cacheVars, oddsVars>>

\* One day's events handed to the inner loop of a scan with an empty accumulator.
CallCollectDay ==
    /\ fn = "collect_day" /\ ret = NoRet
    /\ ret' = IF arg.impl = "service"
              THEN CollectDayService(<<>>, StampPayload(arg.raw), arg.teamId, arg.n)
              ELSE CollectDayRouter(<<>>, StampPayload(arg.raw), arg.teamId, arg.n)
    /\ UNCHANGED <<scanVars, entryVars, fn, arg, cacheVars, oddsVars>>

\* One call of _get_json.
CallGetJson ==
    /\ fn = "get_json" /\ ret = NoRet
    /\ ret' = Attempts(arg.outs, 1, "none")
    /\ UNCHANGED <<scanVars, entryVars, fn, arg, cacheVars, oddsVars>>

\* One call of an edges endpoint on the rows its slate returned.
CallEdges ==
    /\ fn = "edges" /\ ret = NoRet
    /\ ret' = [rows |-> RankEdges(arg.rows, arg.sort, arg.limit)]
    /\ UNCHANGED <<scanVars, entryVars, fn, arg, cacheVars, oddsVars>>

FnNext ==
    \/ CallFetchDay
    \/ CallGetScores
    \/ CallSummarize
    \/ CallCollectDay
    \/ CallGetJson
    \/ CallEdges

FnSpec == FnInit /\ [][FnNext]_vars

----------------------------------------------------------------------------
(* The entry points: one team, and a matchup of two                        *)

\* str.lower() on the sport keys a query can carry.
Lower(s) == IF s = "CBB" THEN "cbb" ELSE s

\* Sport keys of a query: a supported one, the same one in capitals, and one
\* that names no supported sport.
QuerySports == {"cbb", "CBB", "xyz"}

\* The guard of get_form_summary with every key let through.
InSportConfigAlways(s) == TRUE

\* get_form_summary: sport in SPORT_CONFIG
InSportConfig(s) == s \in SupportedSports

\* Query(..., regex="^(cbb|nfl|nhl|cfb)$")
SportPattern(s) == s \in SupportedSports

\* Query(5, ge=1, le=20)
NMin == 1
NMax == 20
CountAccepted(k) == k >= NMin /\ k <= NMax

\* get_form_summary's result for a sport that is not in SPORT_CONFIG.
UnsupportedSummary(teamId) ==
    [teamId |-> teamId, nRequested |-> n, nFound |-> 0, games |-> <<>>,
     note |-> "unsupported sport"]

\* The accumulator of the first scan kept for the second.
CarriedGames == games

\* games: List[...] = [] / collected: List[...] = [] at the start of every scan.
FreshGames == <<>>

\* The scoreboards of a day in the queries of the entry points.
EntryBoards == { <<>>, <<FinalLate, FinalEarly>>, <<OtherFinal, FinalLate>> }

\* team1Id / team2Id of a matchup: two teams, or the same team twice.
TeamLists == { <<"150">>, <<"150", "153">>, <<"150", "150">> }

EntryInit ==
    /\ impl \in Impls
    /\ today = MaxBack
    /\ n \in 0..MaxN
    /\ upstream \in [1..MaxBack -> EntryBoards]
    /\ pc = "call"
    /\ exc = "none"
    /\ delta = 0
    /\ games = <<>>
    /\ fetched = <<>>
    /\ failedDays = {}
    /\ summary = NoSummary
    /\ sport \in QuerySports
    /\ teams \in TeamLists
    /\ team = teams[1]
    /\ entry = IF Len(teams) = 1 THEN "single" ELSE "matchup"
    /\ members = <<>>
    /\ fn = "none"
    /\ arg = NoArg
    /\ ret = NoRet
    /\ SideIdle

\* get_form_summary / get_matchup_form with a sport that is not in
\* SPORT_CONFIG after lower(): every member is the "unsupported sport" result
\* and no scan is started.
ServiceUnsupported ==
    /\ impl = "service" /\ pc = "call"
    /\ ~InSportConfig(Lower(sport))
    /\ IF entry = "single"
       THEN /\ summary' = UnsupportedSummary(teams[1])
            /\ pc' = "done"
            /\ UNCHANGED members
       ELSE /\ members' = [i \in 1..Len(teams) |-> UnsupportedSummary(teams[i])]
            /\ pc' = "returned"
            /\ UNCHANGED summary
    /\ UNCHANGED <<impl, today, n, upstream, exc, delta, games, fetched, failedDays>>
    /\ UNCHANGED <<sport, team, entry, teams, callVars, cacheVars, oddsVars>>

\* last5_team / matchup_form: the Query validators reject the request before
\* the handler runs.
RouterReject ==
    /\ impl = "router" /\ pc = "call"
    /\ ~(SportPattern(sport) /\ CountAccepted(n))
    /\ pc' = "rejected"
    /\ exc' = "RequestValidationError"
    /\ UNCHANGED <<impl, today, n, upstream, delta, games, fetched, failedDays, summary>>
    /\ UNCHANGED <<entryVars, callVars, cacheVars, oddsVars>>

\* The entry point starts the scan of its first team.
EntryStart ==
    /\ pc = "call"
    /\ IF impl = "service" THEN InSportConfig(Lower(sport))
       ELSE SportPattern(sport) /\ CountAccepted(n)
    /\ team' = teams[1]
    /\ delta' = 0
    /\ games' = FreshGames
    /\ pc' = "loop"
    /\ UNCHANGED <<impl, today, n, upstream, exc, fetched, failedDays, summary>>
    /\ UNCHANGED <<sport, entry, teams, members, callVars, cacheVars, oddsVars>>

\* A matchup whose first scan has returned starts the scan of the second
\* team: a new call, with its own loop variable and accumulator.
MatchupNextTeam ==
    /\ entry = "matchup" /\ pc = "done"
    /\ Len(members) + 1 < Len(teams)
    /\ members' = Append(members, summary)
    /\ team' = teams[Len(members) + 2]
    /\ delta' = 0
    /\ games' = FreshGames
    /\ summary' = NoSummary
    /\ pc' = "loop"
    /\ UNCHANGED <<impl, today, n, upstream, exc, fetched, failedDays>>
    /\ UNCHANGED <<sport, entry, teams, callVars, cacheVars, oddsVars>>

\* A matchup whose second scan has returned returns the pair.
MatchupReturn ==
    /\ entry = "matchup" /\ pc = "done"
    /\ Len(members) + 1 = Len(teams)
    /\ members' = Append(members, summary)
    /\ pc' = "returned"
    /\ UNCHANGED <<impl, today, n, upstream, exc, delta, games, fetched, failedDays, summary>>
    /\ UNCHANGED <<sport, team, entry, teams, callVars, cacheVars, oddsVars>>

EntryNext ==
    \/ ServiceUnsupported
    \/ RouterReject
    \/ EntryStart
    \/ MatchupNextTeam
    \/ MatchupReturn
    \/ Next

EntrySpec == EntryInit /\ [][EntryNext]_vars

----------------------------------------------------------------------------
(* The props cache: nfl_props_routes._EDGE_CACHE                           *)

\* _EDGE_CACHE_TTL = timedelta(minutes=30), in units of a quarter of an hour.
Ttl == 2
\* The latest reading of the clock.
MaxClock == 4

\* An Optional[str]: None, or a string.
NoStr == [null |-> TRUE, v |-> ""]
Str(v) == [null |-> FALSE, v |-> v]

\* season or 0 / positions or ""
OrZero(x) == IF x.null \/ x.v = 0 THEN 0 ELSE x.v
OrEmpty(x) == IF x.null \/ x.v = "" THEN "" ELSE x.v

\* _make_cache_key(season, week, stat, positions, bookmakers, region, fast)
MakeCacheKey(a) ==
    << OrZero(a.season), OrZero(a.week), a.stat, OrEmpty(a.positions),
       OrEmpty(a.bookmakers), OrEmpty(a.region), a.fast >>

KeyArgsOf(season, stat) ==
    [season |-> season, week |-> Some(1), stat |-> stat, positions |-> Str("WR,TE"),
     bookmakers |-> NoStr, region |-> Str("us"), fast |-> TRUE]

\* The argument tuples of the cache functions: no season, season 0 (the same
\* key as no season), a season, and another stat.
KeyArgs ==
    { KeyArgsOf(Null, "recYds"), KeyArgsOf(Some(0), "recYds"),
      KeyArgsOf(Some(2025), "recYds"), KeyArgsOf(Null, "receptions") }

AllKeys == {MakeCacheKey(a) : a \in KeyArgs}

\* A key that is not in the dictionary, and an entry {"value", "expires_at"}.
Absent == [present |-> FALSE, value |-> "None", expires_at |-> 0]
Entry(value, expires) == [present |-> TRUE, value |-> value, expires_at |-> expires]

\* GetCached without the check of expires_at.
GetCachedNoExpiry(c, key, now) ==
    IF ~c[key].present THEN [found |-> FALSE, expired |-> FALSE, value |-> "None", cache |-> c]
    ELSE [found |-> TRUE, expired |-> FALSE, value |-> c[key].value, cache |-> c]

\* _get_cached_edges: None without an entry; an entry with expires_at < now
\* is popped and None returned; else the entry's value.
GetCached(c, key, now) ==
    IF ~c[key].present THEN [found |-> FALSE, expired |-> FALSE, value |-> "None", cache |-> c]
    ELSE IF c[key].expires_at < now
         THEN [found |-> FALSE, expired |-> TRUE, value |-> "None",
               cache |-> [c EXCEPT ![key] = Absent]]
    ELSE [found |-> TRUE, expired |-> FALSE, value |-> c[key].value, cache |-> c]

\* _set_cached_edges: _EDGE_CACHE[key] = {"value": value, "expires_at": now + TTL}
SetCached(c, key, value, now) == [c EXCEPT ![key] = Entry(value, now + Ttl)]

\* The values the cache functions are handed directly.
CacheValues == {"v1", "v2"}

NeverSet == [set |-> FALSE, at |-> 0, value |-> "None"]

\* The scan, the entry points and the odds collection at rest.
CacheIdle ==
    /\ ScanIdle
    /\ reqs = <<>>
    /\ service = [none |-> TRUE]
    /\ calls = <<>>
    /\ tasks = <<>>
    /\ out = {}
    /\ sem = 0
    /\ oddsCall = [none |-> TRUE]

CacheInit ==
    /\ CacheIdle
    /\ fn = "none" /\ arg = NoArg /\ ret = NoRet
    /\ cache = [k \in AllKeys |-> Absent]
    /\ clock = 0
    /\ lastSet = [k \in AllKeys |-> NeverSet]

\* datetime.utcnow() has moved on.
Tick ==
    /\ clock < MaxClock
    /\ clock' = clock + 1
    /\ UNCHANGED <<scanVars, entryVars, callVars, cache, lastSet, reqs, service, calls, oddsVars>>

\* One call of _set_cached_edges.
CallSetCached(a, v) ==
    /\ cache' = SetCached(cache, MakeCacheKey(a), v, clock)
    /\ lastSet' = [lastSet EXCEPT ![MakeCacheKey(a)] = [set |-> TRUE, at |-> clock, value |-> v]]
    /\ fn' = "set_cached"
    /\ arg' = [args |-> a, value |-> v]
    /\ ret' = NoRet
    /\ UNCHANGED <<scanVars, entryVars, clock, reqs, service, calls, oddsVars>>

\* One call of _get_cached_edges.
CallGetCached(a) ==
    /\ cache' = GetCached(cache, MakeCacheKey(a), clock).cache
    /\ fn' = "get_cached"
    /\ arg' = [args |-> a, value |-> "None"]
    /\ ret' = [found |-> GetCached(cache, MakeCacheKey(a), clock).found,
               expired |-> GetCached(cache, MakeCacheKey(a), clock).expired,
               value |-> GetCached(cache, MakeCacheKey(a), clock).value,
               at |-> clock]
    /\ UNCHANGED <<scanVars, entryVars, clock, lastSet, reqs, service, calls, oddsVars>>

CacheNext ==
    \/ Tick
    \/ \E a \in KeyArgs, v \in CacheValues : CallSetCached(a, v)
    \/ \E a \in KeyArgs : CallGetCached(a)

CacheSpec == CacheInit /\ [][CacheNext]_vars

----------------------------------------------------------------------------
(* The cached endpoint: nfl_props_routes.nfl_player_prop_edges_simple      *)

\* statLabel.strip().lower() on the labels a query can carry.
LabelNorm(l) == IF l = " Receiving Yards " THEN "receiving yards" ELSE l

\* STAT_LABEL_MAP
StatLabels == {"receiving yards", "receptions", "rushing yards", "passing yards", "passing tds"}
StatOf(label) ==
    CASE label = "receiving yards" -> "recYds"
      [] label = "receptions" -> "receptions"
      [] label = "rushing yards" -> "rushYds"
      [] label = "passing yards" -> "passYds"
      [] label = "passing tds" -> "passTDs"

\* _default_positions_for_stat
DefaultPositions(stat, positions) ==
    IF ~positions.null /\ positions.v # "" THEN positions.v
    ELSE IF stat \in {"recYds", "receptions"} THEN "WR,TE"
    ELSE IF stat = "rushYds" THEN "RB"
    ELSE IF stat \in {"passYds", "passTDs"} THEN "QB"
    ELSE ""

\* The largest limit of a query, the largest number of rows the service
\* yields, and the number of requests.
MaxLimit == 2
MaxServiceRows == 2
MaxReqs == 2

\* The queries of edges_simple: limit is validated by Query(25, ge=1, le=200).
Queries ==
    [season : {Null, Some(2025)}, week : {Some(1)},
     statLabel : {" Receiving Yards ", "yards"}, limit : 1..MaxLimit,
     bookmakers : {NoStr}, region : {Str("us")}, positions : {NoStr},
     fast : {TRUE}, debug : BOOLEAN]

\* The arguments the endpoint hands to the cache functions.
CacheArgsOf(q) ==
    [season |-> q.season, week |-> q.week, stat |-> StatOf(LabelNorm(q.statLabel)),
     positions |-> Str(DefaultPositions(StatOf(LabelNorm(q.statLabel)), q.positions)),
     bookmakers |-> q.bookmakers, region |-> q.region, fast |-> q.fast]
KeyOf(q) == MakeCacheKey(CacheArgsOf(q))

QueryKeys == {KeyOf(q) : q \in {x \in Queries : LabelNorm(x.statLabel) \in StatLabels}}

\* What get_nfl_player_prop_lines returns: a dict with rows, a pair
\* (rows, diagnostics), or something else; the rows are numbered.
ServiceResults ==
    [kind : {"dict", "pair", "other"}, rows : {[i \in 1..k |-> i] : k \in 0..MaxServiceRows}]

\* _normalize_result, the rows: raw.get("rows") or [], raw[0] or [], and []
\* for an unexpected type.
NormalizeRows(raw) == IF raw.kind = "other" THEN <<>> ELSE raw.rows

\* rows[:limit]
Take(rows, limit) == SubSeq(rows, 1, PyMin(limit, Len(rows)))

Reqs == 1..MaxReqs
IdleReq == [pc |-> "idle", rows |-> <<>>, source |-> "none"]

EdgesInit ==
    /\ ScanIdle
    /\ tasks = <<>>
    /\ out = {}
    /\ sem = 0
    /\ oddsCall = [none |-> TRUE]
    /\ fn = "none" /\ arg = NoArg /\ ret = NoRet
    /\ cache = [k \in QueryKeys |-> Absent]
    /\ clock = 0
    /\ lastSet = [k \in QueryKeys |-> NeverSet]
    /\ reqs = [r \in Reqs |-> IdleReq]
    /\ service \in ServiceResults
    /\ calls = [k \in QueryKeys |-> 0]

\* A request with a statLabel that is not in STAT_LABEL_MAP: HTTP 400.
RequestRejected(r, q) ==
    /\ reqs[r].pc = "idle"
    /\ LabelNorm(q.statLabel) \notin StatLabels
    /\ reqs' = [reqs EXCEPT ![r] = [pc |-> "rejected", rows |-> <<>>, source |-> "none", q |-> q]]
    /\ UNCHANGED <<scanVars, entryVars, callVars, cache, clock, lastSet, service, calls, oddsVars>>

\* A request answered from the cache: the cached response with its rows cut
\* to the limit.
RequestHit(r, q) ==
    /\ reqs[r].pc = "idle"
    /\ LabelNorm(q.statLabel) \in StatLabels
    /\ ~q.debug
    /\ GetCached(cache, KeyOf(q), clock).found
    /\ reqs' = [reqs EXCEPT ![r] =
                   [pc |-> "done", source |-> "cache", q |-> q,
                    rows |-> Take(GetCached(cache, KeyOf(q), clock).value.rows, q.limit)]]
    /\ cache' = GetCached(cache, KeyOf(q), clock).cache
    /\ UNCHANGED <<scanVars, entryVars, callVars, clock, lastSet, service, calls, oddsVars>>

\* A request that finds nothing in the cache (or runs with debug) and awaits
\* get_nfl_player_prop_lines.
RequestMiss(r, q) ==
    /\ reqs[r].pc = "idle"
    /\ LabelNorm(q.statLabel) \in StatLabels
    /\ q.debug \/ ~GetCached(cache, KeyOf(q), clock).found
    /\ reqs' = [reqs EXCEPT ![r] = [pc |-> "fetching", rows |-> <<>>, source |-> "none", q |-> q]]
    /\ cache' = IF q.debug THEN cache ELSE GetCached(cache, KeyOf(q), clock).cache
    /\ calls' = [calls EXCEPT ![KeyOf(q)] = @ + 1]
    /\ UNCHANGED <<scanVars, entryVars, callVars, clock, lastSet, service, oddsVars>>

\* The awaited call returns: the rows are normalized and cut to the limit,
\* and without debug the response is stored in the cache.
RequestFresh(r) ==
    /\ reqs[r].pc = "fetching"
    /\ LET q == reqs[r].q
           rows == Take(NormalizeRows(service), q.limit)
       IN  /\ reqs' = [reqs EXCEPT ![r] = [pc |-> "done", rows |-> rows, source |-> "fresh", q |-> q]]
           /\ cache' = IF q.debug THEN cache
                       ELSE SetCached(cache, KeyOf(q), [rows |-> rows], clock)
           /\ lastSet' = IF q.debug THEN lastSet
                         ELSE [lastSet EXCEPT ![KeyOf(q)] =
                                  [set |-> TRUE, at |-> clock, value |-> [rows |-> rows]]]
    /\ UNCHANGED <<scanVars, entryVars, callVars, clock, service, calls, oddsVars>>

\* The awaited call raises: HTTP 500 "fetch_failed", nothing is cached.
RequestFailed(r) ==
    /\ reqs[r].pc = "fetching"
    /\ reqs' = [reqs EXCEPT ![r] = [pc |-> "failed", rows |-> <<>>, source |-> "none", q |-> reqs[r].q]]
    /\ UNCHANGED <<scanVars, entryVars, callVars, cache, clock, lastSet, service, calls, oddsVars>>

EdgesNext ==
    \/ Tick
    \/ \E r \in Reqs, q \in Queries : RequestRejected(r, q)
    \/ \E r \in Reqs, q \in Queries : RequestHit(r, q)
    \/ \E r \in Reqs, q \in Queries : RequestMiss(r, q)
    \/ \E r \in Reqs : RequestFresh(r)
    \/ \E r \in Reqs : RequestFailed(r)

EdgesSpec == EdgesInit /\ [][EdgesNext]_vars

----------------------------------------------------------------------------
(* Odds collection under a semaphore: odds_api.get_cbb_1h_lines and        *)
(* odds_api_nfl_props._collect_for_events                                  *)

\* The default of ODDS_CONCURRENCY, and the fixed limit of the props collector.
DefaultConcurrency == 6
PropsConcurrency == 6

\* The largest number of listed events.
MaxEvents == 8

\* os.getenv("ODDS_CONCURRENCY", "6"): unset, or the text that is set.
EnvConcurrency == {NoStr, Str("0"), Str("1"), Str("six")}

\* int(text) on those texts: the number, or ValueError.
ParseInt(text) ==
    CASE text = "0" -> [raised |-> FALSE, v |-> 0]
      [] text = "1" -> [raised |-> FALSE, v |-> 1]
      [] text = "6" -> [raised |-> FALSE, v |-> DefaultConcurrency]
      [] OTHER -> [raised |-> TRUE, v |-> 0]

\* The limit a collection builds its semaphore with.
SemLimitOf(call) ==
    IF call.collector = "props" THEN [raised |-> FALSE, v |-> PropsConcurrency]
    ELSE ParseInt(IF call.env.null THEN "6" ELSE call.env.v)

\* Semaphore.locked(): acquire would have to wait.
LockedNever(value) == FALSE
Locked(value) == value <= 0

Collectors == {"cbb", "props"}

OddsIdle ==
    /\ ScanIdle
    /\ fn = "none" /\ arg = NoArg /\ ret = NoRet
    /\ cache = <<>> /\ clock = 0 /\ lastSet = <<>>
    /\ reqs = <<>> /\ service = [none |-> TRUE] /\ calls = <<>>

\* A collection is called with the events the provider listed.
OddsInit ==
    /\ OddsIdle
    /\ \E c \in Collectors, m \in 0..MaxEvents :
          /\ tasks = [i \in 1..m |-> "listed"]
          /\ \E env \in (IF c = "cbb" THEN EnvConcurrency ELSE {NoStr}) :
                oddsCall = [collector |-> c, env |-> env, pc |-> "start", queried |-> 0]
    /\ out = {}
    /\ sem = 0

\* get_cbb_1h_lines returns {} when no event is listed.
ReturnNoEvents ==
    /\ oddsCall.pc = "start"
    /\ oddsCall.collector = "cbb"
    /\ tasks = <<>>
    /\ oddsCall' = [oddsCall EXCEPT !.pc = "returned"]
    /\ UNCHANGED <<scanVars, entryVars, callVars, cacheVars, tasks, out, sem>>

\* int(os.getenv(...)) raises: the call raises before any event is processed.
SemaphoreRaises ==
    /\ oddsCall.pc = "start"
    /\ oddsCall.collector = "cbb" => tasks # <<>>
    /\ SemLimitOf(oddsCall).raised
    /\ oddsCall' = [oddsCall EXCEPT !.pc = "raised"]
    /\ UNCHANGED <<scanVars, entryVars, callVars, cacheVars, tasks, out, sem>>

\* The semaphore is built and gather starts one task per event.
Gather ==
    /\ oddsCall.pc = "start"
    /\ oddsCall.collector = "cbb" => tasks # <<>>
    /\ ~SemLimitOf(oddsCall).raised
    /\ sem' = SemLimitOf(oddsCall).v
    /\ tasks' = [i \in DOMAIN tasks |-> "waiting"]
    /\ oddsCall' = [oddsCall EXCEPT !.pc = "gathering"]
    /\ UNCHANGED <<scanVars, entryVars, callVars, cacheVars, out>>

\* The waiters of the semaphore are served in the order they arrived.
FirstWaiting(i) ==
    /\ i \in DOMAIN tasks
    /\ tasks[i] = "waiting"
    /\ \A j \in 1..(i - 1) : tasks[j] # "waiting"

\* `async with sem`: the task enters and issues its odds request.
Acquire(i) ==
    /\ oddsCall.pc = "gathering"
    /\ FirstWaiting(i)
    /\ ~Locked(sem)
    /\ sem' = sem - 1
    /\ tasks' = [tasks EXCEPT ![i] = "inflight"]
    /\ UNCHANGED <<scanVars, entryVars, callVars, cacheVars, out, oddsCall>>

\* process_event returns before any request for an event without id, home
\* or away team (or one that is not an object): the semaphore is entered
\* and left in one step.
SkipEvent(i) ==
    /\ oddsCall.pc = "gathering"
    /\ oddsCall.collector = "cbb"
    /\ FirstWaiting(i)
    /\ ~Locked(sem)
    /\ tasks' = [tasks EXCEPT ![i] = "dropped"]
    /\ UNCHANGED <<scanVars, entryVars, callVars, cacheVars, out, sem, oddsCall>>

\* The request has returned and the lines of the event are stored.
StoreEvent(i) ==
    /\ oddsCall.pc = "gathering"
    /\ i \in DOMAIN tasks
    /\ tasks[i] = "inflight"
    /\ tasks' = [tasks EXCEPT ![i] = "stored"]
    /\ out' = out \cup {i}
    /\ sem' = sem + 1
    /\ oddsCall' = [oddsCall EXCEPT !.queried = IF oddsCall.collector = "props" THEN @ + 1 ELSE @]
    /\ UNCHANGED <<scanVars, entryVars, callVars, cacheVars>>

\* The request has returned and nothing is stored: no usable lines, or an
\* exception while reading the payload, which `except Exception: return`
\* swallows.
DropEvent(i) ==
    /\ oddsCall.pc = "gathering"
    /\ i \in DOMAIN tasks
    /\ tasks[i] = "inflight"
    /\ tasks' = [tasks EXCEPT ![i] = "dropped"]
    /\ sem' = sem + 1
    /\ oddsCall' = [oddsCall EXCEPT !.queried = IF oddsCall.collector = "props" THEN @ + 1 ELSE @]
    /\ UNCHANGED <<scanVars, entryVars, callVars, cacheVars, out>>

\* gather is complete: the collection returns out.
ReturnOut ==
    /\ oddsCall.pc = "gathering"
    /\ \A i \in DOMAIN tasks : tasks[i] \in {"stored", "dropped"}
    /\ oddsCall' = [oddsCall EXCEPT !.pc = "returned"]
    /\ UNCHANGED <<scanVars, entryVars, callVars, cacheVars, tasks, out, sem>>

OddsNext ==
    \/ ReturnNoEvents
    \/ SemaphoreRaises
    \/ Gather
    \/ \E i \in 1..(MaxEvents + 1) : Acquire(i)
    \/ \E i \in 1..(MaxEvents + 1) : SkipEvent(i)
    \/ \E i \in 1..(MaxEvents + 1) : StoreEvent(i)
    \/ \E i \in 1..(MaxEvents + 1) : DropEvent(i)
    \/ ReturnOut

OddsSpec == OddsInit /\ [][OddsNext]_vars

\* Every request is answered or times out (the clients have timeouts), and
\* the event loop runs every task that can run.
OddsFairSpec == OddsSpec /\ WF_vars(OddsNext)

----------------------------------------------------------------------------
(* Vocabulary of the properties                                            *)

\* The scoreboard event a record of the accumulator was made from.
GameEventId(g) == IF impl = "service" THEN g.eventId ELSE g.id
GameDay(g) == GameEventId(g)[1]

AllEvents == UNION { {Board(d)[i] : i \in 1..Len(Board(d))} : d \in DOMAIN upstream }
SourceEvent(g) == CHOOSE e \in AllEvents : e.id = GameEventId(g)

\* A completed game of the queried team, read off the event itself.
IsFinal(ev) == ev.state = "post" /\ ev.completed
HasTeam(ev) == TeamId \in {ev.competitors[i].id : i \in 1..Len(ev.competitors)}
Qualifies(ev) == IsFinal(ev) /\ HasTeam(ev)
QualifyingIds(day) == {Board(day)[i].id : i \in {j \in 1..Len(Board(day)) : Qualifies(Board(day)[j])}}

FetchedDays == {fetched[i] : i \in 1..Len(fetched)}
\* The days whose fetch returned a scoreboard.
SucceededDays ==
    (FetchedDays \ failedDays) \ (IF pc = "raised" THEN {fetched[Len(fetched)]} ELSE {})
QualifyingOnSucceededDays == UNION {QualifyingIds(d) : d \in SucceededDays}
GameIds == {GameEventId(games[k]) : k \in 1..Len(games)}

Min2(a, b) == IF a <= b THEN a ELSE b

AllEmpty == \A d \in DOMAIN upstream : upstream[d] = <<>>

----------------------------------------------------------------------------
(* Properties                                                              *)

\* C1: whatever days fail upstream, a scan does not raise, and it returns the
\* qualifying completed games of the days whose fetch succeeded, up to n.
PartialFailureTolerance ==
    /\ pc # "raised"
    /\ pc = "done" =>
          /\ GameIds \subseteq QualifyingOnSucceededDays
          /\ Len(games) = Min2(n, Cardinality(QualifyingOnSucceededDays))

\* C2: the summary a scan returns has 0 <= nFound <= nRequested, and nFound is
\* the length of the returned games sequence.
CountWithinRequest ==
    pc = "done" =>
        /\ summary.nRequested = n
        /\ 0 <= summary.nFound
        /\ summary.nFound <= summary.nRequested
        /\ summary.nFound = Len(games)
        /\ impl = "service" => summary.games = games /\ Len(summary.games) = summary.nFound

\* A finished scan that was capped: the days it fetched held more qualifying games than n.
CountWitness ==
    /\ pc = "done"
    /\ n >= 1
    /\ summary.nFound = n
    /\ Cardinality(QualifyingOnSucceededDays) > n

\* C3: the returned games are newest-first: each record's event date is at
\* least the date of the record after it.
NewestFirst ==
    pc = "done" => \A i \in 1..(Len(games) - 1) : games[i].date >= games[i + 1].date

\* C4: no day fetch is issued once the accumulator holds n records, and a scan
\* issues at most max_days_back day fetches.
StopsAtN ==
    /\ [](Len(fetched) <= MaxBack)
    /\ [][Len(games) >= n => fetched' = fetched]_vars

\* A scan that reached n before the window was exhausted, with a qualifying
\* game left on a day it did not fetch.
StopsAtNWitness ==
    /\ pc = "done"
    /\ n >= 1
    /\ Len(games) = n
    /\ Len(fetched) < MaxBack
    /\ \E d \in DOMAIN upstream \ FetchedDays : QualifyingIds(d) # {}

WalkFromYesterday ==
    \A i \in 1..Len(fetched) : fetched[i] = today - i

\* C7 as amended: the first day fetched is the caller's current date, and each
\* later fetch is for exactly one calendar day earlier than the previous one.
WalkFromToday ==
    \A i \in 1..Len(fetched) : fetched[i] = today - (i - 1)

\* A walk over the whole window that skipped a failed day on its way.
WalkWitness ==
    /\ Len(fetched) = MaxBack
    /\ fetched[1] = today
    /\ failedDays # {}

\* C8: a scan with n = 0 issues no fetch and returns an empty sequence
\* (nFound = 0) without raising.
ZeroRequestShortCircuit ==
    n = 0 =>
        /\ fetched = <<>>
        /\ games = <<>>
        /\ pc # "raised"
        /\ pc = "done" => summary.nFound = 0

\* A finished scan with n = 0 over an upstream that does hold games of the team.
ZeroRequestWitness ==
    /\ n = 0
    /\ pc = "done"
    /\ \E d \in DOMAIN upstream : QualifyingIds(d) # {}

AppendsWholeDay ==
    pc = "loop" =>
        \A d \in SucceededDays : QualifyingIds(d) \subseteq GameIds

\* The transport of a day fetch failed: every attempt the function makes failed.
TransportFailed ==
    IF arg.impl = "service" THEN arg.a1 # "ok" /\ arg.a2 # "ok" ELSE arg.a1 # "ok"

\* C11: the day fetch never raises on a transport error: when its attempts are
\* exhausted it returns an empty event sequence, and a day without games
\* yields an empty sequence as a success.
GatewayNeverRaises ==
    (fn = "fetch_day" /\ ret # NoRet /\ arg.sport \in SupportedSports) =>
        /\ ~ret.raised
        /\ TransportFailed => ret.events = <<>>
        /\ (~TransportFailed /\ arg.events = <<>>) => ret.events = <<>>

\* A period entry carries a number: a JSON number or a string of digits.
HasNumber(raw) == raw.k = "num" \/ (raw.k = "str" /\ IsDigits(raw.chars))
\* The numbers the values of ScoreValues and PeriodValues denote.
NumberOf(raw) ==
    CASE raw = RawNum(7) -> 7
      [] raw = RawNum(10) -> 10
      [] raw = RawNum(75) -> 75
      [] raw = RawStr(<<"3">>) -> 3
      [] raw = RawStr(<<"7">>) -> 7
      [] raw = RawStr(<<"8", "0">>) -> 80
      [] OTHER -> -1

ScoresReturned == fn = "get_scores" /\ ret # NoRet

\* C12: for nfl and cfb the first-half figure of a side is the sum of its
\* period values at indices 0 and 1, whenever there are at least two entries.
FootballFirstHalf ==
    (/\ ScoresReturned
     /\ arg.sport \in {"nfl", "cfb"}
     /\ Len(arg.linescores) >= 2
     /\ HasNumber(arg.linescores[1])
     /\ HasNumber(arg.linescores[2]))
    => ret.firstHalf = Some(NumberOf(arg.linescores[1]) + NumberOf(arg.linescores[2]))

\* C13: for cbb and nhl the first-half figure of a side is its period value at
\* index 0 when that is present, and null, not 0, without period entries.
HalvesFirstHalf ==
    (ScoresReturned /\ arg.sport \in {"cbb", "nhl"}) =>
        /\ (arg.linescores # <<>> /\ HasNumber(arg.linescores[1]))
              => ret.firstHalf = Some(NumberOf(arg.linescores[1]))
        /\ arg.linescores = <<>> => ret.firstHalf = Null /\ ret.firstHalf # Some(0)

\* A basketball side with two period entries whose first-half figure is the first one.
HalvesFirstHalfWitness ==
    /\ ScoresReturned
    /\ arg.sport = "cbb"
    /\ arg.linescores = <<RawNum(7), RawNum(10)>>
    /\ ret.firstHalf = Some(7)

\* The competitor of the queried team in a game, and the other one (0 if absent).
TeamIdx(g) == CHOOSE i \in 1..Len(g.competitors) : g.competitors[i].id = arg.teamId
OppIdx(g) ==
    IF \E i \in 1..Len(g.competitors) : g.competitors[i].id # arg.teamId
    THEN CHOOSE i \in 1..Len(g.competitors) : g.competitors[i].id # arg.teamId
    ELSE 0
BothSides(g) == OppIdx(g) # 0

\* The first-half figure of the queried team in a game, if its first period
\* entry carries a number.
HalfGiven(g) ==
    /\ g.competitors[TeamIdx(g)].linescores # <<>>
    /\ HasNumber(g.competitors[TeamIdx(g)].linescores[1])
HalfFigure(g) == NumberOf(g.competitors[TeamIdx(g)].linescores[1])

\* The score of a side as the number it denotes, 0 when it denotes none.
ScoreOrZero(raw) == IF HasNumber(raw) THEN NumberOf(raw) ELSE 0

RECURSIVE SumOver(_, _, _)
SumOver(F(_), gs, idx) ==
    IF idx = {} THEN 0
    ELSE LET i == CHOOSE j \in idx : TRUE IN F(gs[i]) + SumOver(F, gs, idx \ {i})

TeamScore(g) == ScoreOrZero(g.competitors[TeamIdx(g)].score)
OppScore(g) == ScoreOrZero(g.competitors[OppIdx(g)].score)

\* avg is the fraction total / count.
IsMean(avg, total, count) == ~avg.null /\ avg.num * count = avg.den * total

Summarized == fn = "summarize" /\ ret # NoRet /\ ~ret.raised

\* C14: the first-half scored average is the mean of the team's first-half
\* figures over the returned games that have one, and null only when none has.
FirstHalfMeanOverKnown ==
    Summarized =>
        LET known == {i \in 1..Len(arg.games) : HalfGiven(arg.games[i])}
        IN  IF known = {} THEN ret.avg1H_scored.null
            ELSE IsMean(ret.avg1H_scored, SumOver(HalfFigure, arg.games, known), Cardinality(known))

\* C15: when no returned game carries first-half data (the empty result
\* included) the first-half averages are null, never 0.
NoFirstHalfDataGivesNull ==
    (Summarized /\ \A i \in 1..Len(arg.games) : ~HalfGiven(arg.games[i])) =>
        /\ ret.avg1H_scored.null /\ ret.avg1H_allowed.null
        /\ ret.avg1H_scored # Avg(0, ret.avg1H_scored.den)
        /\ ret.avg1H_allowed # Avg(0, ret.avg1H_allowed.den)

\* Two games without period entries summarised with null first-half averages.
NoFirstHalfDataWitness ==
    /\ Summarized
    /\ arg.games = <<GameNoPeriods, GameBadScore>>
    /\ ret.avg1H_scored.null /\ ret.avg1H_allowed.null
    /\ ret.nFound = 2

ScoreGiven(g) == Present(g.competitors[TeamIdx(g)].score)

\* C17: a returned game whose score is missing or empty, or whose two sides
\* cannot both be located, adds neither to the sum nor to the divisor of the
\* full-game scored average.
MissingScoreLeftOut ==
    Summarized =>
        LET counted == {i \in 1..Len(arg.games) :
                            BothSides(arg.games[i]) /\ ScoreGiven(arg.games[i])}
        IN  counted # {} =>
                IsMean(ret.avgFull_scored, SumOver(TeamScore, arg.games, counted),
                       Cardinality(counted))

\* The score the normalizer was handed is a string that is not a number, or
\* a value that is neither a string nor a number.
NonNumericScore ==
    \/ arg.score.k = "obj"
    \/ arg.score.k = "str" /\ arg.score.chars # <<>> /\ ~IsDigits(arg.score.chars)

EntryAnswered == entry \in {"single", "matchup"} /\ pc # "call"

\* The answer says that the sport is not supported: the request was rejected,
\* or every summary of the answer carries the note.
UnsupportedSignalled ==
    \/ pc = "rejected" /\ exc = "RequestValidationError"
    \/ /\ entry = "single" /\ pc = "done"
       /\ summary = UnsupportedSummary(teams[1])
    \/ /\ entry = "matchup" /\ pc = "returned"
       /\ \A i \in 1..Len(teams) : members[i] = UnsupportedSummary(teams[i])

\* C19: a query for a sport key outside cbb, nfl, nhl, cfb is answered with
\* the unsupported-sport signal and without a single upstream fetch.
UnsupportedSportFailsFast ==
    (EntryAnswered /\ sport \notin SupportedSports) =>
        UnsupportedSignalled /\ fetched = <<>>

\* C19, as the code has it: the service lower-cases the key first, so the
\* signal without a fetch is given for a key that names no supported sport in
\* any letter case; the router gives it for every key outside the four.
UnsupportedSportAfterLower ==
    /\ (EntryAnswered /\ Lower(sport) \notin SupportedSports) =>
          UnsupportedSignalled /\ fetched = <<>>
    /\ (EntryAnswered /\ impl = "router" /\ sport \notin SupportedSports) =>
          UnsupportedSignalled /\ fetched = <<>>
    /\ (EntryAnswered /\ impl = "service" /\ Lower(sport) \in SupportedSports) =>
          ~UnsupportedSignalled

\* A service matchup for the sport xyz answered with two noted summaries.
UnsupportedSportWitness ==
    /\ impl = "service" /\ entry = "matchup" /\ sport = "xyz"
    /\ pc = "returned"
    /\ Len(members) = 2
    /\ members[1].note = "unsupported sport"
    /\ fetched = <<>>

\* What the scan of a team keeps of an event.
KeptFor(teamId, ev) ==
    IF impl = "service" THEN ExtractTeamView(teamId, ev) # <<>>
    ELSE EventIncludesTeam(ev, teamId) /\ EventCompleted(ev)

\* The kept events of the window, from today backwards, each day in upstream order.
RECURSIVE KeptFrom(_, _)
KeptFrom(teamId, d) ==
    IF d >= MaxBack THEN <<>>
    ELSE SelectSeq(Board(today - d), LAMBDA ev : KeptFor(teamId, ev)) \o KeptFrom(teamId, d + 1)

\* The summary of a single-team query for teamId when every fetch succeeds.
SingleQuery(teamId) ==
    IF impl = "service" /\ Lower(sport) \notin SupportedSports THEN UnsupportedSummary(teamId)
    ELSE LET kept == KeptFrom(teamId, 0)
             first == SubSeq(kept, 1, Min2(n, Len(kept)))
         IN  IF impl = "service"
             THEN LET views == [i \in 1..Len(first) |-> ExtractTeamView(teamId, first[i])[1]]
                  IN  [teamId |-> teamId, nRequested |-> n, nFound |-> Len(first),
                       games |-> SortNewestFirst(views)]
             ELSE [teamId |-> teamId, nRequested |-> n, nFound |-> Len(first)]

\* C20: with every fetch answered from the same upstream, each member of a
\* matchup is the summary the single-team query gives for that team, the
\* single-team entry point gives that summary, and a matchup of a team with
\* itself has two identical members.
MatchupIsTwoSingles ==
    /\ (entry = "matchup" /\ pc = "returned" /\ failedDays = {}) =>
          /\ \A i \in 1..Len(teams) : members[i] = SingleQuery(teams[i])
          /\ teams[1] = teams[2] => members[1] = members[2]
    /\ (entry = "single" /\ pc = "done" /\ failedDays = {}) =>
          summary = SingleQuery(teams[1])

\* A matchup of 150 and 153 returned with the two teams' own counts of games.
MatchupWitness ==
    /\ entry = "matchup" /\ pc = "returned" /\ failedDays = {}
    /\ teams = <<"150", "153">>
    /\ members[1].teamId = "150" /\ members[2].teamId = "153"
    /\ members[1].nFound = 1 /\ members[2].nFound = 2

\* C21: a scan during which a time limit elapsed ends normally, and the
\* records accumulated until then are its result.
DeadlineKeepsPartial ==
    (entry = "scan" /\ exc = "TimeoutException") =>
        /\ pc = "done"
        /\ summary # NoSummary
        /\ summary.nFound = Len(games)

\* A payload event that is well formed and is a completed game of the team.
GoodGame(e) ==
    /\ e.kind = "ok"
    /\ e.core.completed
    /\ \E i \in 1..Len(e.core.competitors) : e.core.competitors[i].id = arg.teamId

\* C22: a malformed event of a day is left out alone: the day's processing
\* does not raise, and the well-formed completed games of the team on that
\* day are collected (as far as the requested count allows).
MalformedEventIsolated ==
    (fn = "collect_day" /\ ret # NoRet) =>
        /\ ~ret.raised
        /\ LET evs == StampPayload(arg.raw)
               good == {i \in 1..Len(evs) : GoodGame(evs[i])}
           IN  Len(ret.games) = Min2(arg.n, Len(ret.games))
               /\ (Len(ret.games) < arg.n =>
                     \A i \in good : \E j \in 1..Len(ret.games) :
                         IF arg.impl = "service" THEN ret.games[j].eventId = evs[i].core.id
                         ELSE ret.games[j].id = evs[i].core.id)

\* C23: in a returned record a side's first-half figure does not exceed its
\* full score when both are there.
HalfWithinFull ==
    (ScoresReturned /\ ~ret.final.null /\ ~ret.firstHalf.null) =>
        ret.firstHalf.v <= ret.final.v

\* C26: a call of _get_json issues at most 2 requests, returns at the first
\* request that succeeds without issuing another, and raises, with the last
\* exception, exactly when both attempts failed.
RetryBounded ==
    (fn = "get_json" /\ ret # NoRet) =>
        /\ ret.requests <= 2
        /\ arg.outs[1] = "ok" => (~ret.raised /\ ret.requests = 1)
        /\ (arg.outs[1] # "ok" /\ arg.outs[2] = "ok") => (~ret.raised /\ ret.requests = 2)
        /\ ret.raised <=> (arg.outs[1] # "ok" /\ arg.outs[2] # "ok")
        /\ ret.raised => (ret.exc = ExcOf(arg.outs[2]) /\ ret.requests = 2)
        /\ ret.raised = ~GetJson(arg.outs[1], arg.outs[2]).ok

\* A call whose first request times out and whose second succeeds: two
\* requests and no exception, although a third request would have failed.
RetryWitness ==
    /\ fn = "get_json" /\ ret # NoRet
    /\ arg.outs[1] = "timeout" /\ arg.outs[2] = "ok" /\ arg.outs[3] = "status"
    /\ ~ret.raised /\ ret.requests = 2

\* The completed games of the team on the days of the lookback window.
QualifyingInWindow ==
    {e \in AllEvents : Qualifies(e) /\ e.id[1] > today - MaxBack /\ e.id[1] <= today}

\* C28: when no day fetch fails, the returned games are min(n, k) of the k
\* completed games of the team in the window, and no such game is left out
\* while a game with an older event date is returned.
MostRecentGames ==
    (entry = "scan" /\ pc = "done" /\ failedDays = {}) =>
        /\ Len(games) = Min2(n, Cardinality(QualifyingInWindow))
        /\ Cardinality(GameIds) = Len(games)
        /\ GameIds \subseteq {e.id : e \in QualifyingInWindow}
        /\ \A e \in QualifyingInWindow :
              e.id \notin GameIds => \A k \in 1..Len(games) : games[k].date >= e.date

\* The selected edge of a returned row.
Selected(row) == IF arg.sort = "spread" THEN row.edge.spreadHome ELSE row.edge.total
Magnitude(x) == IF x >= 0 THEN x ELSE -x

\* How many rows of a sequence are equal to r.
CountOf(r, rows) == Cardinality({i \in 1..Len(rows) : rows[i] = r})

\* C25: the rows of an edges endpoint are in non-increasing order of the
\* absolute selected edge, every row with a null edge comes after every row
\* with a numeric one (an edge of 0 included), and at most
\* max(1, min(limit, 100)) rows, all of them rows of the slate, are returned.
RankedEdges ==
    (fn = "edges" /\ ret # NoRet) =>
        LET ranked == ret.rows
            cap == IF arg.limit > 100 THEN 100 ELSE IF arg.limit < 1 THEN 1 ELSE arg.limit
        IN  /\ \A i, j \in 1..Len(ranked) :
                  (i < j /\ ~Selected(ranked[i]).null /\ ~Selected(ranked[j]).null) =>
                      Magnitude(Selected(ranked[i]).v) >= Magnitude(Selected(ranked[j]).v)
            /\ \A i, j \in 1..Len(ranked) :
                  (i < j /\ Selected(ranked[i]).null) => Selected(ranked[j]).null
            /\ Len(ranked) <= cap
            /\ Len(ranked) = Min2(cap, Len(arg.rows))
            /\ \A i \in 1..Len(ranked) : CountOf(ranked[i], ranked) <= CountOf(ranked[i], arg.rows)
            /\ \A i \in 1..Len(arg.rows) :
                  (CountOf(arg.rows[i], ranked) < CountOf(arg.rows[i], arg.rows) /\ Len(ranked) > 0) =>
                      \/ Selected(arg.rows[i]).null
                      \/ /\ ~Selected(ranked[Len(ranked)]).null
                         /\ Magnitude(Selected(ranked[Len(ranked)]).v) >= Magnitude(Selected(arg.rows[i]).v)

\* A slate listed as null edge, edge 0, edge -3 and ranked by spread with
\* limit 2: edge -3, then edge 0, the null edge cut off.
RankedEdgesWitness ==
    /\ fn = "edges" /\ ret # NoRet
    /\ arg.sort = "spread" /\ arg.limit = 2
    /\ Len(arg.rows) = 3
    /\ arg.rows[1].edge.spreadHome = Null
    /\ arg.rows[2].edge.spreadHome = Some(0)
    /\ arg.rows[3].edge.spreadHome = Some(-3)
    /\ Len(ret.rows) = 2
    /\ ret.rows[1].edge.spreadHome = Some(-3)
    /\ ret.rows[2].edge.spreadHome = Some(0)

\* C29: with a clock that never runs backwards, a get returns a value only if
\* the last set for its key was at most the time to live earlier, returns the
\* value of that last set, returns it whenever there is such a set, and a get
\* that finds an expired entry removes it and returns nothing.
CacheFresh ==
    fn = "get_cached" =>
        LET key == MakeCacheKey(arg.args)
            fresh == lastSet[key].set /\ ret.at - lastSet[key].at <= Ttl
        IN  /\ ret.found => (fresh /\ ret.value = lastSet[key].value)
            /\ fresh => ret.found
            /\ ret.expired => (~ret.found /\ ~cache[key].present /\ lastSet[key].set)
            /\ (lastSet[key].set /\ ~fresh) => ~cache[key].present

\* A get for season 0 that is answered with what was stored without a season
\* exactly one time to live earlier.
CacheFreshWitness ==
    /\ fn = "get_cached"
    /\ ret.found
    /\ arg.args.season = Some(0)
    /\ ret.value = "v2"
    /\ ret.at - lastSet[MakeCacheKey(arg.args)].at = Ttl

\* A request of edges_simple that goes through the cache and awaits the service.
Fetching(r) == reqs[r].pc = "fetching" /\ ~reqs[r].q.debug

InFlight == Cardinality({i \in DOMAIN tasks : tasks[i] = "inflight"})
SemLimit == SemLimitOf(oddsCall).v
InFlightBounded == oddsCall.pc = "gathering" => InFlight <= SemLimit
AllProcessed ==
    /\ oddsCall.pc = "returned"
    /\ \A i \in DOMAIN tasks : tasks[i] \in {"stored", "dropped"}
    /\ out = {i \in DOMAIN tasks : tasks[i] = "stored"}
UsableLimit == ~SemLimitOf(oddsCall).raised /\ SemLimit >= 1
NoRaiseFromEvents == oddsCall.pc = "raised" => \A i \in DOMAIN tasks : tasks[i] = "listed"

\* C27: never more requests in flight than the semaphore limit, every listed
\* event is eventually processed and the call returns, whatever happened to
\* single events.
BoundedConcurrency ==
    /\ []InFlightBounded
    /\ <>AllProcessed
    /\ []NoRaiseFromEvents

\* C27, amended: as C27 when the limit is a positive integer (the default 6,
\* the fixed 6 of the props collector, or ODDS_CONCURRENCY set to one).
BoundedConcurrencyWithUsableLimit ==
    /\ []InFlightBounded
    /\ UsableLimit => <>AllProcessed
    /\ []NoRaiseFromEvents

\* The first event was dropped, as many of the others as the limit allows
\* have their request in flight, and the last one waits for the semaphore.
BoundedConcurrencyWitness ==
    /\ oddsCall.pc = "gathering"
    /\ oddsCall.collector = "cbb"
    /\ oddsCall.env.null
    /\ Len(tasks) = MaxEvents
    /\ tasks[1] = "dropped"
    /\ InFlight = DefaultConcurrency
    /\ tasks[MaxEvents] = "waiting"
    /\ Locked(sem)

====
